---- MODULE Spec2Model ----
(***************************************************************************)
(* slopcannon: worktree lifecycle and cleanup-safety engine.               *)
(*                                                                         *)
(* Strings whose characters the code inspects (branch names, lines of git  *)
(* output) are sequences of one-character strings.  JavaScript null is the *)
(* one-element tuple null, which is no character sequence.                 *)
(***************************************************************************)
EXTENDS Integers, Sequences, FiniteSets, TLC

VARIABLES
    \* ---- getRepoInfo: detectDefaultBranch, listBranches ----
    rpc,            \* position inside getRepoInfo
    originHead,     \* target of refs/remotes/origin/HEAD, or null
    hasMain,        \* refs/heads/main exists
    hasMaster,      \* refs/heads/master exists
    current,        \* output of `git branch --show-current`, or null: nonzero exit
    probes,         \* the probes detectDefaultBranch has executed, in order
    defaultBranch,  \* result of detectDefaultBranch, or null
    raw,            \* lines of `git branch -a --format=%(refname:short)`
    branches,       \* result of listBranches
    \* ---- listWorktrees ----
    wpc,            \* position of the listWorktrees run
    wtRecords,      \* the worktrees git knows, the primary one first
    wtEntries,      \* result of listWorktrees
    \* ---- one invocation of the command line ----
    pc,             \* position of main, runTui, runCleanup
    git,            \* the repository and its surroundings as the commands see them
    deps,           \* checkDeps: which tools are installed
    args,           \* result of parseArgs
    exitCode,       \* argument of process.exit, null while running
    message,        \* the last message shown to the user
    cmds,           \* the state-changing git commands issued, in order
    confirmed,      \* the confirmation prompt was answered with yes
    info,           \* result of getRepoInfo
    baseBranch,     \* runTui: the base branch chosen
    branchName,     \* runTui: the new branch name accepted
    worktreePath,   \* runTui: the computed path
    tuiResult,      \* what runTui returned: the path, or null
    validation,     \* runTui: the last call of the validate callback
    candidates,     \* runCleanup: the classified linked worktrees
    toRemove,       \* runCleanup: the selection, as indices of candidates
    idx,            \* runCleanup: the next element of toRemove
    removed,        \* runCleanup: count of successes
    errors,         \* runCleanup: error list
    written,        \* content written to the --path-file file, or null
    launched,       \* cwd of the launched assistant, or null
    procExit,       \* exit code of the assistant, null when it was killed
    \* ---- validateBranchName and computeWorktreePath on their own ----
    ppc,            \* position: the name is validated, then the paths are computed
    pParentDir,     \* computeWorktreePath: parentDir
    pRepoName,      \* computeWorktreePath: repoName
    pBranch,        \* the proposed branch name
    pExisting,      \* the local branch of the repository
    pReason,        \* result of validateBranchName for the proposed name
    pPath,          \* computeWorktreePath for the proposed name
    pExistingPath   \* computeWorktreePath for the local branch

repoVars == <<rpc, originHead, hasMain, hasMaster, current, probes,
              defaultBranch, raw, branches>>

wtVars == <<wpc, wtRecords, wtEntries>>

tuiVars == <<info, baseBranch, branchName, worktreePath, tuiResult, validation>>

cleanupVars == <<candidates, toRemove, idx, removed, errors>>

cliVars == <<pc, git, deps, args, exitCode, message, cmds, confirmed, written, launched,
             procExit, tuiVars, cleanupVars>>

pathVars == <<ppc, pParentDir, pRepoName, pBranch, pExisting, pReason, pPath,
              pExistingPath>>

vars == <<repoVars, wtVars, cliVars, pathVars>>

(***************************************************************************)
(* Bounds                                                                  *)
(***************************************************************************)
MaxLines == 3       \* lines of a raw branch listing
MaxWorktrees == 3   \* records of a worktree listing, the primary one included
MaxArgs == 2        \* command-line arguments
MaxBranchLen == 3   \* characters of a proposed branch name

(***************************************************************************)
(* Strings                                                                 *)
(***************************************************************************)
null == <<"<null>">>
undefined == <<"<undefined>">>

sMain   == <<"m","a","i","n">>
sMaster == <<"m","a","s","t","e","r">>
sHEAD   == <<"H","E","A","D">>
sOrigin == <<"o","r","i","g","i","n","/">>
sRefsRemotesOrigin == <<"r","e","f","s","/","r","e","m","o","t","e","s","/">> \o sOrigin
sA      == <<"a">>
sB      == <<"B">>
sAsB    == <<"a","/","b">>

\* The characters of the model in increasing UTF-16 code unit order.
CodeUnits == <<" ", "*", "+", "-", "/", "A", "B", "D", "E", "H",
               "a", "b", "d", "e", "f", "g", "i", "m", "n", "o", "r", "s", "t", "x">>

CodeUnit(c) == CHOOSE i \in 1..Len(CodeUnits) : CodeUnits[i] = c

\* String.prototype.startsWith
StartsWith(s, p) == Len(s) >= Len(p) /\ SubSeq(s, 1, Len(p)) = p

\* s.slice(n) for 0 <= n
Slice(s, n) == SubSeq(s, n + 1, Len(s))

IsSpace(c) == c = " "

\* String.prototype.trim
RECURSIVE TrimStart(_)
TrimStart(s) == IF s # <<>> /\ IsSpace(Head(s)) THEN TrimStart(Tail(s)) ELSE s

RECURSIVE TrimEnd(_)
TrimEnd(s) ==
    IF s # <<>> /\ IsSpace(s[Len(s)]) THEN TrimEnd(SubSeq(s, 1, Len(s) - 1)) ELSE s

Trim(s) == TrimEnd(TrimStart(s))

\* s.replace(p, "") for a string pattern p: the first occurrence only
RECURSIVE RemoveFirst(_, _)
RemoveFirst(s, p) ==
    IF Len(s) < Len(p) THEN s
    ELSE IF StartsWith(s, p) THEN Slice(s, Len(p))
    ELSE <<Head(s)>> \o RemoveFirst(Tail(s), p)

(***************************************************************************)
(* a.localeCompare(b): the collation order of the runtime's ICU, root      *)
(* locale.  Punctuation sorts before letters, letters compare without case *)
(* first, and among strings equal up to case the first case difference     *)
(* decides, lower case first.                                              *)
(***************************************************************************)
Lower(c) ==
    CASE c = "A" -> "a" [] c = "B" -> "b" [] c = "D" -> "d"
      [] c = "E" -> "e" [] c = "H" -> "h" [] OTHER -> c

IsUpper(c) == Lower(c) # c

Collation == <<" ", "-", "*", "/", "+", "a", "b", "d", "e", "f", "g", "h", "i",
               "m", "n", "o", "r", "s", "t", "x">>

Primary(c) == CHOOSE i \in 1..Len(Collation) : Collation[i] = Lower(c)

RECURSIVE ComparePrimary(_, _)
ComparePrimary(a, b) ==
    IF a = <<>> /\ b = <<>> THEN 0
    ELSE IF a = <<>> THEN -1
    ELSE IF b = <<>> THEN 1
    ELSE IF Primary(Head(a)) < Primary(Head(b)) THEN -1
    ELSE IF Primary(Head(a)) > Primary(Head(b)) THEN 1
    ELSE ComparePrimary(Tail(a), Tail(b))

RECURSIVE CompareCase(_, _)
CompareCase(a, b) ==
    IF a = <<>> \/ b = <<>> THEN 0
    ELSE IF IsUpper(Head(a)) = IsUpper(Head(b)) THEN CompareCase(Tail(a), Tail(b))
    ELSE IF IsUpper(Head(b)) THEN -1
    ELSE 1

RECURSIVE OrdinalCompare(_, _)
OrdinalCompare(a, b) ==
    IF a = <<>> /\ b = <<>> THEN 0
    ELSE IF a = <<>> THEN -1
    ELSE IF b = <<>> THEN 1
    ELSE IF CodeUnit(Head(a)) < CodeUnit(Head(b)) THEN -1
    ELSE IF CodeUnit(Head(a)) > CodeUnit(Head(b)) THEN 1
    ELSE OrdinalCompare(Tail(a), Tail(b))

LocaleCompare(a, b) ==
    IF ComparePrimary(a, b) # 0 THEN ComparePrimary(a, b) ELSE CompareCase(a, b)


(***************************************************************************)
(* listBranches                                                            *)
(***************************************************************************)
\* First pass: the names of the lines that are not remote-tracking.
LocalBranches(lines) ==
    { Trim(lines[i]) : i \in { j \in 1..Len(lines) :
          Trim(lines[j]) # <<>> /\ ~StartsWith(Trim(lines[j]), sOrigin) } }

ShortName(name) == IF StartsWith(name, sOrigin) THEN RemoveFirst(name, sOrigin) ELSE name

HasEntry(entries, short) == \E i \in 1..Len(entries) : entries[i].name = short

EntryRefFirstSeen(name, short, locals) == name

\* ref: localBranches.has(short) ? short : name
EntryRef(name, short, locals) == IF short \in locals THEN short ELSE name

\* Second pass: one entry per short name, in order of first appearance.
RECURSIVE BuildEntries(_, _, _)
BuildEntries(lines, locals, entries) ==
    IF lines = <<>> THEN entries
    ELSE LET name  == Trim(Head(lines))
             short == ShortName(name)
         IN  IF name = <<>> \/ short = sHEAD \/ HasEntry(entries, short)
             THEN BuildEntries(Tail(lines), locals, entries)
             ELSE BuildEntries(Tail(lines), locals,
                      Append(entries, [name |-> short, ref |-> EntryRef(name, short, locals)]))

CompareNoDefault(a, b, def) == LocaleCompare(a.name, b.name)

\* The comparator handed to branches.sort
CompareBranches(a, b, def) ==
    IF a.name = def THEN -1
    ELSE IF b.name = def THEN 1
    ELSE LocaleCompare(a.name, b.name)

\* Array.prototype.sort: stable, so x goes behind every element that does not
\* compare greater than it.
RECURSIVE InsertSorted(_, _, _)
InsertSorted(sorted, x, def) ==
    IF sorted = <<>> THEN <<x>>
    ELSE IF CompareBranches(sorted[Len(sorted)], x, def) <= 0 THEN Append(sorted, x)
    ELSE Append(InsertSorted(SubSeq(sorted, 1, Len(sorted) - 1), x, def), sorted[Len(sorted)])

RECURSIVE SortBranches(_, _, _)
SortBranches(todo, sorted, def) ==
    IF todo = <<>> THEN sorted
    ELSE SortBranches(Tail(todo), InsertSorted(sorted, Head(todo), def), def)

ListBranches(lines, def) ==
    SortBranches(BuildEntries(lines, LocalBranches(lines), <<>>), <<>>, def)


(***************************************************************************)
(* listWorktrees                                                           *)
(***************************************************************************)
sWorktreeSp   == <<"w","o","r","k","t","r","e","e"," ">>
sBranchHeads  == <<"b","r","a","n","c","h"," ","r","e","f","s","/","h","e","a","d","s","/">>
sDetached     == <<"d","e","t","a","c","h","e","d">>
sBare         == <<"b","a","r","e">>
sHeadLine     == <<"H","E","A","D"," ","0","a","f">>
sF            == <<"f">>
sX            == <<"f","/","x">>

Digits == <<"0", "1", "2", "3", "4", "5", "6", "7", "8", "9">>

\* The path of the i-th worktree of the repository /w0.
PathOf(i) == <<"/", "w", Digits[i]>>

\* One record of `git worktree list --porcelain`, as git prints it.
RecordLines(rec) ==
    <<sWorktreeSp \o rec.path>> \o
    (CASE rec.head = "bare"     -> <<sBare>>
       [] rec.head = "detached" -> <<sHeadLine, sDetached>>
       [] OTHER                 -> <<sHeadLine, sBranchHeads \o rec.branch>>)

\* The trimmed output split at newlines: records separated by one empty line.
RECURSIVE Porcelain(_)
Porcelain(recs) ==
    IF recs = <<>> THEN <<>>
    ELSE IF Len(recs) = 1 THEN RecordLines(recs[1])
    ELSE RecordLines(recs[1]) \o << <<>> >> \o Porcelain(Tail(recs))

Truthy(v) == v # undefined /\ v # null /\ v # <<>>

\* a ?? b
Coalesce(a, b) == IF a = undefined \/ a = null THEN b ELSE a

IsMainAlways(entries) == TRUE

\* isMain: entries.length === 0
IsMainFlag(entries) == Len(entries) = 0

PushCurrent(entries, cur) ==
    IF Truthy(cur.path)
    THEN Append(entries, [path |-> cur.path, branch |-> Coalesce(cur.branch, null),
                          isMain |-> IsMainFlag(entries)])
    ELSE entries

EmptyCurrent == [path |-> undefined, branch |-> undefined]

RECURSIVE ParseWorktrees(_, _, _)
ParseWorktrees(lines, entries, cur) ==
    IF lines = <<>> THEN PushCurrent(entries, cur)
    ELSE LET line == Head(lines)
         IN  IF StartsWith(line, sWorktreeSp)
             THEN ParseWorktrees(Tail(lines), entries,
                      [cur EXCEPT !.path = Slice(line, Len(sWorktreeSp))])
             ELSE IF StartsWith(line, sBranchHeads)
             THEN ParseWorktrees(Tail(lines), entries,
                      [cur EXCEPT !.branch = Slice(line, Len(sBranchHeads))])
             ELSE IF line = sDetached
             THEN ParseWorktrees(Tail(lines), entries, [cur EXCEPT !.branch = null])
             ELSE IF line = <<>>
             THEN ParseWorktrees(Tail(lines), PushCurrent(entries, cur), EmptyCurrent)
             ELSE ParseWorktrees(Tail(lines), entries, cur)

ListWorktrees(lines) == ParseWorktrees(lines, <<>>, EmptyCurrent)

WtBranches == {sF, sX}

PrimaryHeads == { [head |-> "bare", branch |-> null], [head |-> "detached", branch |-> null],
                  [head |-> "branch", branch |-> sMain] }

LinkedHeads == { [head |-> "detached", branch |-> null] } \cup
               { [head |-> "branch", branch |-> b] : b \in WtBranches }

\* The worktree sets of a repository: the primary worktree, then up to
\* maxLinked linked ones.
WorktreeWorlds(primaryHeads, maxLinked) ==
    { w \in UNION { [1..n -> [path : {PathOf(i) : i \in 1..(maxLinked + 1)},
                              head : {"bare", "detached", "branch"},
                              branch : WtBranches \cup {sMain, null}]]
                    : n \in 1..(maxLinked + 1) } :
        /\ \A i \in 1..Len(w) : w[i].path = PathOf(i)
        /\ [head |-> w[1].head, branch |-> w[1].branch] \in primaryHeads
        /\ \A i \in 2..Len(w) : [head |-> w[i].head, branch |-> w[i].branch] \in LinkedHeads }

(***************************************************************************)
(* validateBranchName, computeWorktreePath                                 *)
(***************************************************************************)
HasChar(s, c) == \E i \in 1..Len(s) : s[i] = c

\* Exit status of `git check-ref-format --branch <name>` on the characters of
\* the model: 0 unless the name is empty, holds a space or an asterisk, starts
\* with a dash, starts or ends with a slash, or holds two slashes in a row.
RefFormatOk(name) ==
    /\ name # <<>>
    /\ ~HasChar(name, " ")
    /\ ~HasChar(name, "*")
    /\ Head(name) # "-"
    /\ Head(name) # "/"
    /\ name[Len(name)] # "/"
    /\ \A i \in 1..(Len(name) - 1) : ~(name[i] = "/" /\ name[i + 1] = "/")

\* The validate callback's "no reason": JavaScript undefined.
NoReason == "<undefined>"

ValidateBranchNameNoProbe(name, locals) ==
    IF ~RefFormatOk(name) THEN "Invalid branch name" ELSE NoReason

\* locals: the names n for which `git rev-parse --verify refs/heads/<n>` exits 0
ValidateBranchName(name, locals) ==
    IF ~RefFormatOk(name) THEN "Invalid branch name"
    ELSE IF name \in locals THEN "Branch already exists"
    ELSE NoReason

ReplaceFirstSlash(s) ==
    LET at == { i \in 1..Len(s) : s[i] = "/" }
    IN  IF at = {} THEN s
        ELSE [i \in 1..Len(s) |->
                 IF i = CHOOSE k \in at : \A j \in at : k <= j THEN "-" ELSE s[i]]

\* branch.replace(/\//g, "-")
RECURSIVE ReplaceSlashes(_)
ReplaceSlashes(s) ==
    IF s = <<>> THEN <<>>
    ELSE <<IF Head(s) = "/" THEN "-" ELSE Head(s)>> \o ReplaceSlashes(Tail(s))

\* Runs of slashes collapse to one slash.
RECURSIVE CollapseSlashes(_)
CollapseSlashes(s) ==
    IF Len(s) < 2 THEN s
    ELSE IF s[1] = "/" /\ s[2] = "/" THEN CollapseSlashes(Tail(s))
    ELSE <<Head(s)>> \o CollapseSlashes(Tail(s))

\* path.join(a, b) for an absolute a and a b without dot segments
PathJoin(a, b) == CollapseSlashes(a \o <<"/">> \o b)

ComputeWorktreePathKeepsSlashes(parentDir, repoName, branch) ==
    PathJoin(parentDir, repoName \o <<"-">> \o branch)

ComputeWorktreePath(parentDir, repoName, branch) ==
    PathJoin(parentDir, repoName \o <<"-">> \o ReplaceSlashes(branch))

(***************************************************************************)
(* The cleanup classifier                                                  *)
(***************************************************************************)
\* One line of `git branch --merged <into>`: the current branch is marked
\* with an asterisk; a git that marks worktrees (2.23 and later) marks a branch
\* checked out in another worktree with a plus sign; others are indented.
MergedLine(b, cur, inWorktree, marks) ==
    IF b = cur THEN <<"*", " ">> \o b
    ELSE IF marks /\ b \in inWorktree THEN <<"+", " ">> \o b
    ELSE <<" ", " ">> \o b

RECURSIVE LinesOf(_, _, _, _, _)
LinesOf(order, set, cur, inWorktree, marks) ==
    IF order = <<>> THEN <<>>
    ELSE IF Head(order) \in set
    THEN <<MergedLine(Head(order), cur, inWorktree, marks)>>
             \o LinesOf(Tail(order), set, cur, inWorktree, marks)
    ELSE LinesOf(Tail(order), set, cur, inWorktree, marks)

\* exec trims the whole output, so the first line loses its indentation.
TrimOutput(lines) ==
    IF lines = <<>> THEN << <<>> >>
    ELSE <<TrimStart(lines[1])>> \o Tail(lines)

BranchOrder == <<sF, sX, sMain>>

\* The worktree entries of a listing that carry a branch.
BranchesIn(recs) == { recs[i].branch : i \in { j \in 1..Len(recs) : recs[j].head = "branch" } }

\* exec(["branch", "--merged", into], root).split("\n") in repository g, run
\* from the primary worktree.
MergedOutput(g) ==
    TrimOutput(LinesOf(BranchOrder, g.merged, g.worktrees[1].branch,
                       BranchesIn(g.worktrees), g.marks))

\* isBranchMerged: false when the command exits nonzero
IsBranchMerged(g, branch) ==
    IF ~g.mergedOk THEN FALSE
    ELSE \E i \in 1..Len(MergedOutput(g)) : Trim(MergedOutput(g)[i]) = branch

\* isBranchDeletedOnRemote: rev-parse --verify refs/remotes/origin/<branch>
IsBranchDeletedOnRemote(g, branch) == branch \notin g.remotes

\* PrInfo | null: the null of this type
noPr == [number |-> 0, state |-> "<null>"]

\* lookupPr: the first review request gh lists for the branch, or null
LookupPr(g, branch) ==
    IF branch \notin DOMAIN g.prs \/ g.prs[branch] = "none" THEN noPr
    ELSE [number |-> 1, state |-> g.prs[branch]]

SafeToCleanBranchGone(merged, deletedOnRemote, branch, prMerged) ==
    merged \/ (deletedOnRemote /\ Truthy(branch)) \/ prMerged

\* safeToClean = merged || (deletedOnRemote && !entry.branch) || prMerged
SafeToClean(merged, deletedOnRemote, branch, prMerged) ==
    merged \/ (deletedOnRemote /\ ~Truthy(branch)) \/ prMerged

ClassifyProbesDetached(g, hasGh, entry) ==
    LET merged == IF Truthy(entry.branch) THEN IsBranchMerged(g, entry.branch) ELSE FALSE
        deletedOnRemote == IsBranchDeletedOnRemote(g, entry.branch)
        pr == IF Truthy(entry.branch) /\ hasGh THEN LookupPr(g, entry.branch) ELSE noPr
        prMerged == pr # noPr /\ pr.state = "MERGED"
    IN  [entry |-> entry, merged |-> merged, deletedOnRemote |-> deletedOnRemote,
         pr |-> pr, safeToClean |-> SafeToClean(merged, deletedOnRemote, entry.branch, prMerged)]

\* One candidate: merged, deletedOnRemote and the review request are looked
\* up only for an entry with a branch.
Classify(g, hasGh, entry) ==
    LET merged == IF Truthy(entry.branch) THEN IsBranchMerged(g, entry.branch) ELSE FALSE
        deletedOnRemote ==
            IF Truthy(entry.branch) THEN IsBranchDeletedOnRemote(g, entry.branch) ELSE FALSE
        pr == IF Truthy(entry.branch) /\ hasGh THEN LookupPr(g, entry.branch) ELSE noPr
        prMerged == pr # noPr /\ pr.state = "MERGED"
    IN  [entry |-> entry, merged |-> merged, deletedOnRemote |-> deletedOnRemote,
         pr |-> pr, safeToClean |-> SafeToClean(merged, deletedOnRemote, entry.branch, prMerged)]

LinkedAll(entries) == entries

\* worktrees.filter((w) => !w.isMain)
RECURSIVE Linked(_)
Linked(entries) ==
    IF entries = <<>> THEN <<>>
    ELSE IF ~Head(entries).isMain THEN <<Head(entries)>> \o Linked(Tail(entries))
    ELSE Linked(Tail(entries))

\* initialValues: candidates.filter((c) => c.safeToClean), as indices
InitialValues(cands) == { i \in 1..Len(cands) : cands[i].safeToClean }

Candidates(g, hasGh, entries) ==
    [i \in 1..Len(Linked(entries)) |-> Classify(g, hasGh, Linked(entries)[i])]

(***************************************************************************)
(* detectDefaultBranch: the probes executed, the result, and whether the   *)
(* call threw.  oh: target of origin/HEAD or null; hm, hms: main, master   *)
(* exist; cur: output of `branch --show-current`, null on a nonzero exit.  *)
(***************************************************************************)
ProbeOrder == <<"symbolic-ref", "verify-main", "verify-master", "show-current">>

DetectDefaultBranch(oh, hm, hms, cur) ==
    IF oh # null
    THEN [probes |-> SubSeq(ProbeOrder, 1, 1), threw |-> FALSE,
          result |-> RemoveFirst(sRefsRemotesOrigin \o oh, sRefsRemotesOrigin)]
    ELSE IF hm
    THEN [probes |-> SubSeq(ProbeOrder, 1, 2), threw |-> FALSE, result |-> sMain]
    ELSE IF hms
    THEN [probes |-> SubSeq(ProbeOrder, 1, 3), threw |-> FALSE, result |-> sMaster]
    ELSE IF cur = null
    THEN [probes |-> ProbeOrder, threw |-> TRUE, result |-> null]
    ELSE [probes |-> ProbeOrder, threw |-> FALSE,
          result |-> IF cur # <<>> THEN cur ELSE sMain]

(***************************************************************************)
(* getRepoInfo, one step per part: root, default branch, branch listing    *)
(***************************************************************************)
LocalNames  == {sMain, sMaster, sA, sB, sAsB}
RemoteNames == {sMain, sHEAD, sA, sB}
Lines       == LocalNames \cup { sOrigin \o n : n \in RemoteNames }

Injective(f) == \A i, j \in DOMAIN f : f[i] = f[j] => i = j

\* The outputs of `git branch -a --format=%(refname:short)`: no line twice; an
\* empty output splits into one empty line.
RawListings ==
    { <<<<>>>> } \cup
    { r \in UNION { [1..n -> Lines] : n \in 1..MaxLines } : Injective(r) }

HasLine(r, l) == \E i \in 1..Len(r) : r[i] = l

RepoIdle ==
    /\ rpc = "idle" /\ originHead = null /\ hasMain = FALSE /\ hasMaster = FALSE
    /\ current = null /\ probes = <<>> /\ defaultBranch = null
    /\ raw = <<>> /\ branches = <<>>

RepoInit ==
    /\ rpc = "root"
    /\ originHead \in {null, sMain, sA}
    /\ hasMain \in BOOLEAN
    /\ hasMaster \in BOOLEAN
    /\ current \in {null, <<>>, sB, sMain}
    /\ current = sMain => hasMain
    /\ probes = <<>> /\ defaultBranch = null /\ raw = <<>> /\ branches = <<>>

\* exec(["rev-parse", "--show-toplevel"]) and the remote URL lookup
ResolveRoot ==
    /\ rpc = "root"
    /\ \E inRepo \in BOOLEAN : rpc' = IF inRepo THEN "detect" ELSE "notrepo"
    /\ UNCHANGED <<originHead, hasMain, hasMaster, current, probes, defaultBranch,
                   raw, branches, wtVars, cliVars, pathVars>>

DetectStep ==
    /\ rpc = "detect"
    /\ LET d == DetectDefaultBranch(originHead, hasMain, hasMaster, current)
       IN  /\ probes' = d.probes
           /\ defaultBranch' = d.result
           /\ rpc' = IF d.threw THEN "detect_threw" ELSE "list"
    /\ UNCHANGED <<originHead, hasMain, hasMaster, current, raw, branches, wtVars, cliVars, pathVars>>

ListStep ==
    /\ rpc = "list"
    /\ \E r \in RawListings :
          /\ HasLine(r, sMain) = hasMain
          /\ HasLine(r, sMaster) = hasMaster
          /\ raw' = r
          /\ branches' = ListBranches(r, defaultBranch)
    /\ rpc' = "done"
    /\ UNCHANGED <<originHead, hasMain, hasMaster, current, probes, defaultBranch, wtVars, cliVars, pathVars>>

\* exec throws when `git branch -a` exits nonzero
ListFails ==
    /\ rpc = "list"
    /\ rpc' = "list_threw"
    /\ UNCHANGED <<originHead, hasMain, hasMaster, current, probes, defaultBranch,
                   raw, branches, wtVars, cliVars, pathVars>>

RepoNext == ResolveRoot \/ DetectStep \/ ListStep \/ ListFails

(***************************************************************************)
(* listWorktrees as a run of its own                                       *)
(***************************************************************************)
WtIdle == wpc = "idle" /\ wtRecords = <<>> /\ wtEntries = <<>>

WtInit ==
    /\ wpc = "start"
    /\ wtRecords \in WorktreeWorlds(PrimaryHeads, MaxWorktrees - 1)
    /\ wtEntries = <<>>

\* listWorktrees(root) when `git worktree list --porcelain` exits with 0
ListWorktreesStep ==
    /\ wpc = "start"
    /\ wtEntries' = ListWorktrees(Porcelain(wtRecords))
    /\ wpc' = "done"
    /\ UNCHANGED <<wtRecords, repoVars, cliVars, pathVars>>

\* exec throws on a nonzero exit
ListWorktreesFails ==
    /\ wpc = "start"
    /\ wpc' = "threw"
    /\ UNCHANGED <<wtRecords, wtEntries, repoVars, cliVars, pathVars>>

WtNext == ListWorktreesStep \/ ListWorktreesFails

(***************************************************************************)
(* main, runTui, runCleanup: one invocation of the command line            *)
(***************************************************************************)
NoExit == -1            \* process.exit has not been called
NoPathFile == "<undefined>"

Tokens == {"--help", "--version", "--path-file", "config", "cleanup", "clean",
           "out.txt", "--bogus"}

\* args[i].startsWith("-")
StartsWithDash(a) == a \in {"--help", "--version", "--path-file", "--bogus"}

Argvs == UNION { [1..n -> Tokens] : n \in 0..MaxArgs }

NoArgs == [help |-> FALSE, version |-> FALSE, config |-> FALSE, cleanup |-> FALSE,
           pathFile |-> NoPathFile]

\* parseArgs: the loop from index i on; exit: process.exit(1) was called
RECURSIVE ParseArgsFrom(_, _, _)
ParseArgsFrom(av, i, result) ==
    IF i > Len(av) THEN [exit |-> FALSE, args |-> result]
    ELSE IF av[i] = "--help" THEN ParseArgsFrom(av, i + 1, [result EXCEPT !.help = TRUE])
    ELSE IF av[i] = "--version"
    THEN ParseArgsFrom(av, i + 1, [result EXCEPT !.version = TRUE])
    ELSE IF av[i] = "--path-file" /\ i < Len(av)
    THEN ParseArgsFrom(av, i + 2, [result EXCEPT !.pathFile = av[i + 1]])
    ELSE IF av[i] = "config" THEN ParseArgsFrom(av, i + 1, [result EXCEPT !.config = TRUE])
    ELSE IF av[i] \in {"cleanup", "clean"}
    THEN ParseArgsFrom(av, i + 1, [result EXCEPT !.cleanup = TRUE])
    ELSE IF ~StartsWithDash(av[i]) THEN [exit |-> TRUE, args |-> result]
    ELSE ParseArgsFrom(av, i + 1, result)

ParseArgs(av) == ParseArgsFrom(av, 1, NoArgs)

sParent   == <<"/", "p">>       \* path.dirname(root)
sRepoName == <<"r">>            \* path.basename(root)
sDefaultName == <<"x", "-", "f">>   \* randomBranchName()

\* getRepoInfo in repository g: threw, or the default branch and the branches
GetRepoInfo(g) ==
    LET d == DetectDefaultBranch(g.originHead, HasLine(g.raw, sMain),
                                 HasLine(g.raw, sMaster), g.current)
    IN  IF ~g.inRepo \/ d.threw
        THEN [threw |-> TRUE, defaultBranch |-> null, branches |-> <<>>]
        ELSE [threw |-> FALSE, defaultBranch |-> d.result,
              branches |-> ListBranches(g.raw, d.result)]

NoInfo == [threw |-> TRUE, defaultBranch |-> null, branches |-> <<>>]

\* A command issued: its target, the element of toRemove it is issued for (0:
\* none), whether it exited with 0, whether the confirm prompt had been
\* answered with yes.
Cmd(c, t, i, ok) ==
    [cmd |-> c, target |-> t, item |-> i, ok |-> ok, afterConfirm |-> confirmed]

ProceedsUnlessCancel(answer) == answer # "cancel"

\* if (p.isCancel(confirmed) || !confirmed) return
Proceeds(answer) == answer = "yes"

\* process.exit(code) with the last message m
Exit(code, m) == pc' = "exited" /\ exitCode' = code /\ message' = m

CliIdle ==
    /\ pc = "idle" /\ git = <<>> /\ deps = <<>> /\ args = NoArgs /\ exitCode = NoExit
    /\ message = "" /\ cmds = <<>> /\ confirmed = FALSE /\ info = NoInfo
    /\ baseBranch = null /\ branchName = null /\ worktreePath = null /\ tuiResult = null
    /\ validation = <<>> /\ candidates = <<>> /\ toRemove = <<>> /\ idx = 0
    /\ removed = 0 /\ errors = <<>> /\ written = null /\ launched = null
    /\ procExit = NoExit

\* The state of a run before its first step, at position p.
CliFresh(p, a) ==
    /\ pc = p /\ args = a /\ exitCode = NoExit
    /\ message = "" /\ cmds = <<>> /\ confirmed = FALSE /\ info = NoInfo
    /\ baseBranch = null /\ branchName = null /\ worktreePath = null /\ tuiResult = null
    /\ validation = <<>> /\ candidates = <<>> /\ toRemove = <<>> /\ idx = 0
    /\ removed = 0 /\ errors = <<>> /\ written = null /\ launched = null
    /\ procExit = NoExit

PrStates == {"none", "OPEN", "MERGED"}

\* Repositories: worktrees w, branches merged into the default branch m (the
\* default branch is merged into itself), remote-tracking refs r, review
\* requests q, branch listing l.
Repos(ws, ms, rs, qs, ls, oks) ==
    [inRepo : oks, listOk : oks, worktrees : ws, merged : { {sMain} \cup m : m \in ms },
     mergedOk : BOOLEAN, marks : BOOLEAN, remotes : rs, prs : qs, raw : ls,
     originHead : {null}, current : {sMain}]

Deps == [git : BOOLEAN, claude : BOOLEAN, gh : BOOLEAN]

TuiListings == { <<sF, sMain>>, <<sMain, sOrigin \o sF>> }

\* The invocations of the command line: every worktree listing of the bounds
\* in a few repositories.
CliInit ==
    /\ CliFresh("start", NoArgs)
    /\ git \in Repos(WorktreeWorlds({[head |-> "branch", branch |-> sMain]}, MaxWorktrees - 1),
                     {{}, {sF}}, {{sX}}, {[b \in WtBranches |-> "none"]}, TuiListings,
                     BOOLEAN)
    /\ git.mergedOk /\ git.marks
    /\ deps \in Deps

\* runCleanup is entered: every repository of the bounds.
ClassifyInit ==
    /\ CliFresh("cleanup", [NoArgs EXCEPT !.cleanup = TRUE])
    /\ git \in Repos(WorktreeWorlds({[head |-> "branch", branch |-> sMain]}, MaxWorktrees - 1),
                     SUBSET WtBranches, SUBSET WtBranches, [WtBranches -> PrStates],
                     {<<sMain>>}, {TRUE})
    /\ deps \in { d \in Deps : d.git /\ d.claude }

\* parseArgs
ParseArgsStep ==
    /\ pc = "start"
    /\ \E av \in Argvs :
          LET r == ParseArgs(av)
          IN  IF r.exit
              THEN Exit(1, "Unknown command") /\ UNCHANGED args
              ELSE /\ args' = r.args /\ pc' = "main"
                   /\ UNCHANGED <<exitCode, message>>
    /\ UNCHANGED <<git, deps, cmds, confirmed, written, launched, procExit, tuiVars, cleanupVars,
                   repoVars, wtVars, pathVars>>

RequireGitSkipped(d) == TRUE

\* requireGit(deps) returns: git is installed; otherwise it exits with 1
RequireGit(d) == d.git

\* main, from the version check to the call of runConfig, runCleanup or runTui
MainDispatch ==
    /\ pc = "main"
    /\ IF args.version THEN Exit(0, "version")
       ELSE IF args.help THEN Exit(0, "help")
       ELSE IF args.config THEN pc' = "config" /\ UNCHANGED <<exitCode, message>>
       ELSE IF ~RequireGit(deps) THEN Exit(1, "Error: git is not installed.")
       ELSE IF args.cleanup THEN pc' = "cleanup" /\ UNCHANGED <<exitCode, message>>
       ELSE IF ~deps.claude THEN Exit(1, "Error: claude CLI is not installed.")
       ELSE pc' = "tui" /\ UNCHANGED <<exitCode, message>>
    /\ UNCHANGED <<git, deps, args, cmds, confirmed, written, launched, procExit, tuiVars,
                   cleanupVars, repoVars, wtVars, pathVars>>

\* runConfig: the prompt is cancelled, or answered and the file saved; a failing
\* write is an uncaught failure of main
RunConfig ==
    /\ pc = "config"
    /\ \E r \in {"cancel", "save", "fail"} :
          CASE r = "cancel" -> Exit(0, "Cancelled.")
            [] r = "save"   -> Exit(0, "Config saved")
            [] r = "fail"   -> Exit(1, "uncaught")
    /\ UNCHANGED <<git, deps, args, cmds, confirmed, written, launched, procExit, tuiVars,
                   cleanupVars, repoVars, wtVars, pathVars>>

\* runCleanup up to the selection prompt: getRepoInfo, prune, listWorktrees,
\* classification.  Every return of runCleanup is followed by process.exit(0).
CleanupScan ==
    /\ pc = "cleanup"
    /\ info' = GetRepoInfo(git)
    /\ IF info'.threw
       THEN /\ Exit(0, "Not inside a git repository.")
            /\ UNCHANGED <<cmds, candidates>>
       ELSE /\ cmds' = Append(cmds, Cmd("prune-worktrees", sParent \o <<"/">> \o sRepoName, 0, TRUE))
            /\ IF ~git.listOk
               THEN Exit(0, "Cleanup failed.") /\ UNCHANGED candidates
               ELSE IF Linked(ListWorktrees(Porcelain(git.worktrees))) = <<>>
               THEN Exit(0, "Nothing to clean up.") /\ UNCHANGED candidates
               ELSE /\ candidates' = Candidates(git, deps.gh,
                                                ListWorktrees(Porcelain(git.worktrees)))
                    /\ pc' = "select"
                    /\ UNCHANGED <<exitCode, message>>
    /\ UNCHANGED <<git, deps, args, confirmed, written, launched, procExit, baseBranch,
                   branchName, worktreePath, tuiResult, validation, toRemove, idx,
                   removed, errors,
                   repoVars, wtVars, pathVars>>

\* The selections a multiselect can return: candidates without repetition, in
\* the order the user toggled them.
Selections(n) ==
    { sel \in UNION { [1..k -> 1..n] : k \in 0..n } : Injective(sel) }

\* The multiselect prompt is answered.
CleanupSelect ==
    /\ pc = "select"
    /\ \/ Exit(0, "Cancelled.") /\ UNCHANGED toRemove
       \/ \E sel \in Selections(Len(candidates)) :
             /\ toRemove' = sel
             /\ IF sel = <<>>
                THEN Exit(0, "Nothing selected.")
                ELSE pc' = "confirm" /\ UNCHANGED <<exitCode, message>>
    /\ UNCHANGED <<git, deps, args, cmds, confirmed, written, launched, procExit, tuiVars,
                   candidates, idx, removed, errors, repoVars, wtVars, pathVars>>

\* The confirm prompt is answered.
CleanupConfirm ==
    /\ pc = "confirm"
    /\ \E answer \in {"yes", "no", "cancel"} :
          IF Proceeds(answer)
          THEN /\ confirmed' = (answer = "yes") /\ idx' = 1 /\ pc' = "remove"
               /\ UNCHANGED <<exitCode, message>>
          ELSE Exit(0, "Cancelled.") /\ UNCHANGED <<confirmed, idx>>
    /\ UNCHANGED <<git, deps, args, cmds, written, launched, procExit, tuiVars,
                   candidates, toRemove, removed, errors, repoVars, wtVars, pathVars>>

ErrorLabelBranch(entry) == entry.branch

\* c.entry.branch ?? c.entry.path
ErrorLabel(entry) == Coalesce(entry.branch, entry.path)

DeletesBranchAlways(entry, rmOk) == Truthy(entry.branch)

\* deleteBranch is reached: removeWorktree did not throw, and c.entry.branch
\* is truthy
DeletesBranch(entry, rmOk) == rmOk /\ Truthy(entry.branch)

\* One iteration of the removal loop; rmOk, delOk: the exit status of
\* `git worktree remove --force` and of `git branch -D`.
RemoveItem ==
    /\ pc = "remove" /\ idx <= Len(toRemove)
    /\ LET c == candidates[toRemove[idx]]
       IN  \E rmOk, delOk \in BOOLEAN :
           LET rm == Cmd("remove-worktree", c.entry.path, idx, rmOk)
               del == Cmd("delete-branch", c.entry.branch, idx, delOk)
           IN
              /\ cmds' = IF DeletesBranch(c.entry, rmOk)
                         THEN cmds \o <<rm, del>> ELSE Append(cmds, rm)
              /\ (DeletesBranch(c.entry, rmOk) \/ delOk)
              /\ IF rmOk
                 THEN /\ removed' = removed + 1
                      /\ UNCHANGED errors
                 ELSE /\ errors' = Append(errors, [label |-> ErrorLabel(c.entry),
                                                   message |-> "git failed"])
                      /\ UNCHANGED removed
    /\ idx' = idx + 1
    /\ UNCHANGED <<pc, git, deps, args, exitCode, message, confirmed, written, launched, procExit,
                   tuiVars, candidates, toRemove, repoVars, wtVars, pathVars>>

\* The loop has ended: the count and the errors are reported.
CleanupFinish ==
    /\ pc = "remove" /\ idx > Len(toRemove)
    /\ Exit(0, "Done.")
    /\ UNCHANGED <<git, deps, args, cmds, confirmed, written, launched, procExit, tuiVars,
                   cleanupVars, repoVars, wtVars, pathVars>>

TypedNames == { <<>>, sF, sX, <<"f", " ", "x">>, <<" ", "x">>, sMain }

\* runTui up to the base branch prompt
TuiStart ==
    /\ pc = "tui"
    /\ info' = GetRepoInfo(git)
    /\ IF info'.threw
       THEN /\ message' = "Not inside a git repository."
            /\ pc' = "tui_returned"
       ELSE pc' = "base" /\ UNCHANGED message
    /\ UNCHANGED <<git, deps, args, exitCode, cmds, confirmed, written, launched, procExit,
                   baseBranch, branchName, worktreePath, tuiResult, validation,
                   cleanupVars, repoVars, wtVars, pathVars>>

\* The base branch prompt is answered.
TuiBase ==
    /\ pc = "base"
    /\ \/ /\ message' = "Cancelled." /\ pc' = "tui_returned"
          /\ UNCHANGED baseBranch
       \/ \E i \in 1..Len(info.branches) :
             /\ baseBranch' = info.branches[i]
             /\ pc' = "name"
             /\ UNCHANGED message
    /\ UNCHANGED <<git, deps, args, exitCode, cmds, confirmed, written, launched, procExit,
                   info, branchName, worktreePath, tuiResult, validation, cleanupVars,
                   repoVars, wtVars, pathVars>>

\* The name prompt: the user cancels, or submits a value and the validate
\* callback runs; a rejected value leaves the prompt open.
TuiName ==
    /\ pc = "name"
    /\ \/ /\ message' = "Cancelled." /\ pc' = "tui_returned"
          /\ UNCHANGED <<branchName, worktreePath, validation>>
       \/ \E typed \in TypedNames :
             LET v == Trim(IF typed = <<>> THEN sDefaultName ELSE typed)
                 reason == ValidateBranchName(v, LocalBranches(git.raw))
             IN  /\ validation' = [name |-> v, reason |-> reason]
                 /\ IF reason = NoReason
                    THEN /\ branchName' = v
                         /\ worktreePath' = ComputeWorktreePath(sParent, sRepoName, v)
                         /\ pc' = "create"
                    ELSE UNCHANGED <<branchName, worktreePath, pc>>
                 /\ UNCHANGED message
    /\ UNCHANGED <<git, deps, args, exitCode, cmds, confirmed, written, launched, procExit,
                   info, baseBranch, tuiResult, cleanupVars, repoVars, wtVars, pathVars>>

\* The confirm prompt is answered; on yes createWorktree runs, ok: exit status 0.
TuiConfirm ==
    /\ pc = "create"
    /\ \E answer \in {"yes", "no", "cancel"}, ok \in BOOLEAN :
          IF Proceeds(answer)
          THEN /\ confirmed' = (answer = "yes")
               /\ cmds' = Append(cmds, [cmd |-> "add-worktree", target |-> worktreePath,
                                        item |-> 0, ok |-> ok,
                                        afterConfirm |-> (answer = "yes")])
               /\ IF ok
                  THEN message' = "Worktree created." /\ tuiResult' = worktreePath
                  ELSE message' = "Worktree creation failed." /\ UNCHANGED tuiResult
          ELSE /\ ok
               /\ message' = "Cancelled."
               /\ UNCHANGED <<cmds, confirmed, tuiResult>>
    /\ pc' = "tui_returned"
    /\ UNCHANGED <<git, deps, args, exitCode, written, launched, procExit, info, baseBranch,
                   branchName, worktreePath, validation, cleanupVars, repoVars, wtVars, pathVars>>

UsesPathFileNever(a) == FALSE

\* if (args.pathFile)
UsesPathFile(a) == a.pathFile # NoPathFile

\* main after runTui has returned: exit, write the path file, or launch the
\* assistant; a failing write is an uncaught failure.
MainAfterTui ==
    /\ pc = "tui_returned"
    /\ IF tuiResult = null
       THEN /\ pc' = "exited" /\ exitCode' = 0
            /\ UNCHANGED <<message, written, launched>>
       ELSE IF UsesPathFile(args)
       THEN \E ok \in BOOLEAN :
               IF ok THEN /\ written' = tuiResult
                          /\ pc' = "exited" /\ exitCode' = 0
                          /\ UNCHANGED <<message, launched>>
                     ELSE Exit(1, "uncaught") /\ UNCHANGED <<written, launched>>
       ELSE /\ launched' = tuiResult
            /\ pc' = "assistant"
            /\ UNCHANGED <<exitCode, message, written>>
    /\ UNCHANGED <<git, deps, args, cmds, confirmed, procExit, tuiVars, cleanupVars,
                   repoVars, wtVars, pathVars>>

AssistantCodes == {0, 1, 3}

\* The assistant exits: process.exit(proc.exitCode ?? 0); killed: no exit code.
AssistantExits ==
    /\ pc = "assistant"
    /\ \/ \E code \in AssistantCodes : Exit(code, "assistant exited") /\ procExit' = code
       \/ Exit(0, "assistant killed") /\ UNCHANGED procExit
    /\ UNCHANGED <<git, deps, args, cmds, confirmed, written, launched, tuiVars,
                   cleanupVars, repoVars, wtVars, pathVars>>

Next ==
    \/ ParseArgsStep \/ MainDispatch \/ RunConfig
    \/ CleanupScan \/ CleanupSelect \/ CleanupConfirm \/ RemoveItem \/ CleanupFinish
    \/ TuiStart \/ TuiBase \/ TuiName \/ TuiConfirm \/ MainAfterTui \/ AssistantExits

(***************************************************************************)
(* validateBranchName and computeWorktreePath on their own: a proposed     *)
(* name next to the local branch of a repository                           *)
(***************************************************************************)
sWork == <<"/", "w", "o", "r", "k">>
sApp == <<"a", "p", "p">>
sFeatLogin == <<"f", "e", "a", "t", "/", "l", "o", "g", "i", "n">>
sFxF == <<"f", "/", "x", "/", "f">>

\* path.dirname(root) of a repository: the root directory or a directory
ParentDirs == { <<"/">>, sParent, sWork }

RepoNames == { sRepoName, sApp }

NameChars == {"f", "/", "-"}

\* The proposed names: every name of up to MaxBranchLen characters, and two
\* longer ones
ProposedNames ==
    UNION { [1..n -> NameChars] : n \in 1..MaxBranchLen } \cup {sFeatLogin, sFxF}

\* A local branch has a well-formed name.
LocalBranchNames == { b \in ProposedNames : RefFormatOk(b) }

PathIdle ==
    /\ ppc = "idle" /\ pParentDir = <<>> /\ pRepoName = <<>> /\ pBranch = <<>>
    /\ pExisting = <<>> /\ pReason = NoReason /\ pPath = null /\ pExistingPath = null

PathInit ==
    /\ ppc = "validate"
    /\ pParentDir \in ParentDirs
    /\ pRepoName \in RepoNames
    /\ pBranch \in ProposedNames
    /\ pExisting \in LocalBranchNames
    /\ pReason = NoReason /\ pPath = null /\ pExistingPath = null

\* validateBranchName(name, root) in a repository whose local branch is
\* pExisting
ValidateStep ==
    /\ ppc = "validate"
    /\ pReason' = ValidateBranchName(pBranch, {pExisting})
    /\ ppc' = "compute"
    /\ UNCHANGED <<pParentDir, pRepoName, pBranch, pExisting, pPath, pExistingPath,
                   repoVars, wtVars, cliVars>>

\* computeWorktreePath for the proposed name and for the local branch
ComputeStep ==
    /\ ppc = "compute"
    /\ pPath' = ComputeWorktreePath(pParentDir, pRepoName, pBranch)
    /\ pExistingPath' = ComputeWorktreePath(pParentDir, pRepoName, pExisting)
    /\ ppc' = "done"
    /\ UNCHANGED <<pParentDir, pRepoName, pBranch, pExisting, pReason,
                   repoVars, wtVars, cliVars>>

PathNext == ValidateStep \/ ComputeStep

(***************************************************************************)
(* Specifications                                                          *)
(***************************************************************************)
\* getRepoInfo on every repository of the bounds
InitRepo == RepoInit /\ WtIdle /\ CliIdle /\ PathIdle

SpecRepo == InitRepo /\ [][RepoNext]_vars

\* listWorktrees on every worktree listing of the bounds
InitWorktrees == WtInit /\ RepoIdle /\ CliIdle /\ PathIdle

SpecWorktrees == InitWorktrees /\ [][WtNext]_vars

\* The cleanup classifier on every repository of the bounds
InitClassify == ClassifyInit /\ RepoIdle /\ WtIdle /\ PathIdle

SpecClassify == InitClassify /\ [][CleanupScan]_vars

\* One invocation of the command line
Init == CliInit /\ RepoIdle /\ WtIdle /\ PathIdle

Spec == Init /\ [][Next]_vars

\* validateBranchName and computeWorktreePath on every name of the bounds
InitPath == PathInit /\ RepoIdle /\ WtIdle /\ CliIdle

SpecPath == InitPath /\ [][PathNext]_vars

(***************************************************************************)
(* Claims on getRepoInfo                                                   *)
(***************************************************************************)
DetectDone == rpc \in {"list", "done", "list_threw", "detect_threw"}

CurrentSucceeds == current # null /\ current # <<>>

\* The probes the claimed order executes: up to and including the first success.
ClaimedProbes ==
    IF originHead # null THEN <<"symbolic-ref">>
    ELSE IF hasMain THEN <<"symbolic-ref", "verify-main">>
    ELSE IF hasMaster THEN <<"symbolic-ref", "verify-main", "verify-master">>
    ELSE <<"symbolic-ref", "verify-main", "verify-master", "show-current">>

ClaimedDefault ==
    IF originHead # null THEN originHead
    ELSE IF hasMain THEN sMain
    ELSE IF hasMaster THEN sMaster
    ELSE IF CurrentSucceeds THEN current
    ELSE sMain

\* C7: default-branch detection runs the probes (a) origin/HEAD, (b) main,
\* (c) master, (d) current branch in this order, stops at the first success,
\* returns that probe's result, and returns the literal main when all of (a)
\* to (d) fail; detection itself never fails.
C7_FirstProbeWins ==
    DetectDone =>
        /\ rpc # "detect_threw"
        /\ probes = ClaimedProbes
        /\ defaultBranch = ClaimedDefault

NamesDistinct(bs) == \A i, j \in 1..Len(bs) : bs[i].name = bs[j].name => i = j

\* C8: the entries of listBranches have pairwise distinct display names, an
\* entry whose short name is a local branch of the listing refers to the local
\* name whatever the order of the lines, and an entry refers to origin/<name>
\* only when the listing has no local branch of that name.
C8_LocalRefWins ==
    rpc = "done" =>
        /\ NamesDistinct(branches)
        /\ \A i \in 1..Len(branches) :
              LET e == branches[i]
              IN  /\ e.name # sHEAD
                  /\ HasLine(raw, e.name) => e.ref = e.name
                  /\ ~HasLine(raw, e.name) =>
                        e.ref = sOrigin \o e.name /\ HasLine(raw, e.ref)

\* C8 witness: a listing with origin/<name> ahead of the local <name>.
C8_Witness ==
    /\ rpc = "done"
    /\ \E i, j \in 1..Len(raw) :
          i < j /\ raw[i] = sOrigin \o raw[j] /\ raw[j] \in LocalNames
    /\ \E k \in 1..Len(branches) : branches[k].ref \notin LocalNames

DefaultFirst ==
    (\E i \in 1..Len(branches) : branches[i].name = defaultBranch)
        => branches[1].name = defaultBranch

\* The elements after the default branch.
Rest == IF branches # <<>> /\ branches[1].name = defaultBranch
        THEN Tail(branches) ELSE branches

\* C9 as stated: the default branch, when present, is first and the remaining
\* elements are in code-unit lexicographic order of their display names.
C9_OrdinalOrder ==
    rpc = "done" =>
        /\ DefaultFirst
        /\ \A i \in 1..(Len(Rest) - 1) :
              OrdinalCompare(Rest[i].name, Rest[i + 1].name) < 0

\* C9 amended: the default branch, when present, is first and the remaining
\* elements are in the order of localeCompare on their display names.
C9_LocaleOrder ==
    rpc = "done" =>
        /\ DefaultFirst
        /\ \A i \in 1..(Len(Rest) - 1) :
              LocaleCompare(Rest[i].name, Rest[i + 1].name) < 0

\* C9 witness: the default branch is listed last and two other branches are
\* listed against their collation order.
C9_Witness ==
    /\ rpc = "done"
    /\ Len(raw) = 3 /\ Len(branches) = 3
    /\ raw[3] = defaultBranch
    /\ LocaleCompare(raw[1], raw[2]) > 0
    /\ branches[1].name = defaultBranch

(***************************************************************************)
(* Claims on listWorktrees                                                 *)
(***************************************************************************)
\* C4: for a nonempty porcelain listing listWorktrees returns one entry per
\* record, the first entry is that of the first record and is the only one
\* with the primary flag.
C4_OnePrimaryFirst ==
    wpc = "done" =>
        /\ Len(wtEntries) = Len(wtRecords)
        /\ wtEntries[1].isMain
        /\ wtEntries[1].path = wtRecords[1].path
        /\ \A i \in 2..Len(wtEntries) : ~wtEntries[i].isMain
        /\ Cardinality({ i \in 1..Len(wtEntries) : wtEntries[i].isMain }) = 1

\* C4 witness: a parsed listing with linked worktrees behind the primary one.
C4_Witness ==
    /\ wpc = "done"
    /\ Len(wtEntries) = MaxWorktrees
    /\ wtEntries[2].branch = null
    /\ wtEntries[3].branch = sX

(***************************************************************************)
(* Claims on the cleanup classifier                                        *)
(***************************************************************************)
Scanned == pc = "select"

\* C1: for every classified linked worktree safeToClean equals merged, or
\* deletedOnRemote and detached, or a review request in state MERGED; a
\* worktree whose branch is not merged, has a live remote-tracking ref and no
\* review request is not safe, and is safe once its review request is MERGED.
C1_SafeToReclaim ==
    Scanned =>
        \A i \in 1..Len(candidates) :
            LET c == candidates[i]
                b == c.entry.branch
            IN  /\ c.safeToClean =
                       (c.merged \/ (c.deletedOnRemote /\ b = null)
                                 \/ (c.pr # noPr /\ c.pr.state = "MERGED"))
                /\ b # null /\ b \notin git.merged /\ b \in git.remotes
                       /\ (git.prs[b] = "none" \/ ~deps.gh) => ~c.safeToClean
                /\ b # null /\ deps.gh /\ git.prs[b] = "MERGED" => c.safeToClean

\* C1 witness: a worktree whose remote branch is gone and that is not safe,
\* next to one that is safe by its review request alone.
C1_Witness ==
    /\ Scanned
    /\ \E i, j \in 1..Len(candidates) :
          /\ candidates[i].deletedOnRemote /\ ~candidates[i].safeToClean
          /\ candidates[j].safeToClean /\ ~candidates[j].merged
          /\ candidates[j].entry.branch \notin git.merged
          /\ candidates[j].entry.branch \in git.remotes

\* C3: a linked worktree with a branch is merged exactly when the branch is
\* among the branches merged into the default branch; a detached one is not
\* merged; a failure of the command gives false.
C3_MergedIffInMergedSet ==
    Scanned =>
        \A i \in 1..Len(candidates) :
            LET c == candidates[i]
                b == c.entry.branch
            IN  IF b = null THEN ~c.merged
                ELSE c.merged = (git.mergedOk /\ b \in git.merged)

(***************************************************************************)
(* Claims on one invocation                                                *)
(***************************************************************************)
BatchEnded == pc = "remove" /\ idx > Len(toRemove)

\* The commands of kind k issued for element i of the selection.
CmdsFor(k, i) == { j \in 1..Len(cmds) : cmds[j].cmd = k /\ cmds[j].item = i }

FailedItems == { i \in 1..Len(toRemove) :
                   \E j \in CmdsFor("remove-worktree", i) : ~cmds[j].ok }

\* The elements of the selection whose removal failed, in order.
RECURSIVE FailedFrom(_)
FailedFrom(i) ==
    IF i > Len(toRemove) THEN <<>>
    ELSE IF i \in FailedItems THEN <<i>> \o FailedFrom(i + 1)
    ELSE FailedFrom(i + 1)

\* C2: when a confirmed batch ends every element has had exactly one removal
\* attempt whatever failed before it, the success count is the number of
\* elements whose removal did not fail, and the error list has one entry per
\* failed element, naming its branch, or its path when it has no branch.
C2_BatchReport ==
    BatchEnded =>
        /\ \A i \in 1..Len(toRemove) :
              /\ Cardinality(CmdsFor("remove-worktree", i)) = 1
              /\ \A j \in CmdsFor("remove-worktree", i) :
                    cmds[j].target = candidates[toRemove[i]].entry.path
        /\ removed = Len(toRemove) - Cardinality(FailedItems)
        /\ Len(errors) = Cardinality(FailedItems)
        /\ \A k \in 1..Len(errors) :
              LET e == candidates[toRemove[FailedFrom(1)[k]]].entry
              IN  errors[k].label = IF e.branch # null THEN e.branch ELSE e.path

\* C2 witness: a batch has ended in which the removal of a detached worktree
\* failed and a later removal succeeded.
C2_Witness ==
    /\ BatchEnded
    /\ Len(toRemove) >= 2
    /\ 1 \in FailedItems /\ Len(toRemove) \notin FailedItems
    /\ candidates[toRemove[1]].entry.branch = null

Mutating == {"add-worktree", "remove-worktree", "delete-branch", "prune-worktrees"}

\* C5 as stated: every state-changing command is issued after the confirm
\* prompt of the run was answered with yes, at most once per target, and none
\* is issued in a run the user cancelled.
C5_AllConfirmed ==
    /\ \A i \in 1..Len(cmds) : cmds[i].cmd \in Mutating => cmds[i].afterConfirm
    /\ \A i, j \in 1..Len(cmds) :
          cmds[i].cmd = cmds[j].cmd /\ cmds[i].target = cmds[j].target => i = j
    /\ message = "Cancelled." => cmds = <<>>

Confirmable == {"add-worktree", "remove-worktree", "delete-branch"}

\* C5 amended: add-worktree, remove-worktree and delete-branch are issued only
\* after the confirm prompt of the run was answered with yes; add-worktree at
\* most once, remove-worktree at most once per worktree path, delete-branch at
\* most once per selected worktree; none of them is issued in a run the user
\* cancelled.  prune-worktrees is issued by the cleanup flow only, once, as
\* the first command and before any prompt.
C5_ConfirmedExceptPrune ==
    /\ \A i \in 1..Len(cmds) :
          /\ cmds[i].cmd \in Confirmable => cmds[i].afterConfirm /\ confirmed
          /\ cmds[i].cmd = "prune-worktrees" => i = 1 /\ args.cleanup
    /\ \A i, j \in 1..Len(cmds) :
          /\ cmds[i].cmd = "remove-worktree" /\ cmds[j].cmd = "remove-worktree"
                /\ cmds[i].target = cmds[j].target => i = j
          /\ cmds[i].cmd = cmds[j].cmd /\ cmds[i].item = cmds[j].item => i = j
    /\ message = "Cancelled." => \A i \in 1..Len(cmds) : cmds[i].cmd \notin Confirmable
    /\ pc \in {"select", "confirm", "remove"} =>
          cmds # <<>> /\ cmds[1].cmd = "prune-worktrees"

\* C5 witness: a confirmed batch has removed two worktrees that share a
\* branch, after the prune.
C5_Witness ==
    /\ BatchEnded /\ confirmed
    /\ cmds[1].cmd = "prune-worktrees"
    /\ Cardinality({ j \in 1..Len(cmds) : cmds[j].cmd = "delete-branch" }) = 2
    /\ Cardinality({ cmds[j].target : j \in { k \in 1..Len(cmds) :
                                              cmds[k].cmd = "delete-branch" } }) = 1

\* C6: validateBranchName gives a reason for a name that fails the format
\* check and for the name of an existing local branch, and no reason exactly
\* for a well-formed name that no local branch has.
C6_ValidateName ==
    validation # <<>> =>
        LET v == validation.name
            exists == HasLine(git.raw, v)
        IN  /\ validation.reason \in {NoReason, "Invalid branch name", "Branch already exists"}
            /\ ~RefFormatOk(v) => validation.reason # NoReason
            /\ exists => validation.reason # NoReason
            /\ (validation.reason = NoReason) = (RefFormatOk(v) /\ ~exists)

\* C6 witness: a well-formed name was rejected because the branch exists.
C6_Witness ==
    /\ validation # <<>>
    /\ validation.reason = "Branch already exists"
    /\ RefFormatOk(validation.name)

FatalMessages == {"Unknown command", "Error: git is not installed.",
                  "Error: claude CLI is not installed.",
                  "Not inside a git repository.", "uncaught"}

\* C10: an invocation ends with 1 on a fatal error (missing dependency, not
\* a repository, unknown argument, uncaught failure), with the assistant's
\* exit code when the assistant was launched, and with 0 otherwise.
C10_ExitCodes ==
    pc = "exited" =>
        exitCode = IF message \in FatalMessages THEN 1
                   ELSE IF message = "assistant exited" THEN procExit
                   ELSE 0

\* The positions of main before any call of runCleanup or runTui.
BeforeGitUse == {"start", "main", "config", "exited"}

\* No command was issued, no repository was inspected, nothing was written or
\* launched.
NoRepositoryOperation ==
    /\ cmds = <<>> /\ info = NoInfo /\ candidates = <<>>
    /\ written = null /\ launched = null
    /\ pc \in BeforeGitUse

\* C11 as stated: without git every invocation, in every mode, ends with
\* exit code 1 and performs no repository operation.
C11_AlwaysFatal ==
    ~deps.git =>
        /\ NoRepositoryOperation
        /\ pc = "exited" => exitCode = 1

\* C11: without git the cleanup mode and the default mode end with exit code 1
\* and the message that git is not installed; --version, --help and config
\* never look for git and end as they do with git (0, or 1 on an uncaught
\* failure of config); an unknown positional argument ends with 1 before the
\* check.  No mode performs a repository operation.
C11_FatalWhereGitIsUsed ==
    ~deps.git =>
        /\ NoRepositoryOperation
        /\ pc = "exited" =>
              IF message = "Unknown command" THEN exitCode = 1
              ELSE IF args.version THEN exitCode = 0 /\ message = "version"
              ELSE IF args.help THEN exitCode = 0 /\ message = "help"
              ELSE IF args.config
              THEN \/ exitCode = 0 /\ message \in {"Cancelled.", "Config saved"}
                   \/ exitCode = 1 /\ message = "uncaught"
              ELSE exitCode = 1 /\ message = "Error: git is not installed."

\* C11 witness: the cleanup mode ended without git.
C11_Witness ==
    /\ ~deps.git /\ pc = "exited" /\ args.cleanup /\ ~args.config
    /\ message = "Error: git is not installed." /\ exitCode = 1

\* main has acted on a path that runTui returned.
PathHandled == pc \in {"assistant", "exited"} /\ tuiResult # null

\* C12: in the default mode a returned path is written to the --path-file
\* file and no assistant is launched when --path-file is given (a write that
\* fails ends the invocation with 1, nothing written); without --path-file the
\* assistant is launched in the returned path and nothing is written; when
\* runTui returns no path nothing is written and nothing is launched.
C12_PathFileOrLaunch ==
    /\ tuiResult = null => written = null /\ launched = null
    /\ written # null => args.pathFile # NoPathFile /\ written = tuiResult /\ launched = null
    /\ launched # null => args.pathFile = NoPathFile /\ launched = tuiResult /\ written = null
    /\ PathHandled =>
          IF args.pathFile # NoPathFile
          THEN /\ launched = null /\ pc = "exited"
               /\ \/ written = tuiResult /\ exitCode = 0
                  \/ written = null /\ exitCode = 1 /\ message = "uncaught"
          ELSE launched = tuiResult /\ written = null
    /\ pc = "exited" /\ tuiResult = null /\ message \in {"Cancelled.",
             "Not inside a git repository.", "Worktree creation failed."}
          => exitCode = 0

\* C12 witness: the path of the created worktree was written to the file and
\* the invocation ended without an assistant.
C12_Witness ==
    /\ pc = "exited" /\ args.pathFile = "out.txt" /\ tuiResult # null
    /\ written = tuiResult /\ launched = null /\ exitCode = 0

\* The positions in cmds of command k.
Issued(k) == { j \in 1..Len(cmds) : cmds[j].cmd = k }

\* The candidate that command j was issued for.
CandidateOf(j) == candidates[toRemove[cmds[j].item]]

\* C14: in a batch a branch deletion is issued only directly after the
\* successful removal of the same candidate's worktree, and only for a candidate
\* with a branch; after a failed removal no deletion is issued for that
\* candidate; the count of successes is the count of successful removals and
\* the error list has one entry per failed removal, whatever the deletions did.
C14_DeleteAfterRemoval ==
    /\ \A j \in Issued("delete-branch") :
          /\ j > 1
          /\ cmds[j - 1].cmd = "remove-worktree"
          /\ cmds[j - 1].item = cmds[j].item
          /\ cmds[j - 1].ok
          /\ Truthy(CandidateOf(j).entry.branch)
          /\ cmds[j].target = CandidateOf(j).entry.branch
    /\ \A j \in Issued("remove-worktree") :
          ~cmds[j].ok => \A k \in Issued("delete-branch") : cmds[k].item # cmds[j].item
    /\ removed = Cardinality({ j \in Issued("remove-worktree") : cmds[j].ok })
    /\ Len(errors) = Cardinality({ j \in Issued("remove-worktree") : ~cmds[j].ok })

\* C14 witness: a batch ended in which one removal failed and the branch
\* deletion after a successful removal failed, with one success counted and
\* one error listed.
C14_Witness ==
    /\ BatchEnded
    /\ \E j \in Issued("delete-branch") : ~cmds[j].ok
    /\ \E j \in Issued("remove-worktree") : ~cmds[j].ok /\ Truthy(CandidateOf(j).entry.branch)
    /\ removed = 1 /\ Len(errors) = 1

\* The listing that runCleanup obtained in this run.
RunListing == ListWorktrees(Porcelain(git.worktrees))

\* The paths of the entries of the listing that are not the primary worktree.
SecondaryPaths ==
    { RunListing[i].path : i \in { k \in 1..Len(RunListing) : ~RunListing[k].isMain } }

\* C15: whatever is selected and confirmed, every target of remove-worktree
\* is the path of an entry of this run's listing whose primary flag is false,
\* and the primary worktree is never a target.
C15_OnlySecondaryRemoved ==
    \A j \in Issued("remove-worktree") :
        /\ cmds[j].target \in SecondaryPaths
        /\ \A i \in 1..Len(RunListing) :
              RunListing[i].isMain => cmds[j].target # RunListing[i].path
        /\ cmds[j].target # git.worktrees[1].path

\* C15 witness: a batch ended in which every secondary worktree of a
\* repository with at least two of them was a removal target.
C15_Witness ==
    /\ BatchEnded
    /\ Len(git.worktrees) >= 3
    /\ { cmds[j].target : j \in Issued("remove-worktree") } = SecondaryPaths

\* Candidate i is the i-th linked worktree of the repository: it is detached.
Detached(i) == git.worktrees[i + 1].head = "detached"

\* C16: for a detached linked worktree deletedOnRemote is false and the
\* review request is none, so deletedOnRemote and detached never hold
\* together; safeToClean is merged or a review request in state MERGED; a
\* detached worktree is never safe to reclaim and never pre-selected.
C16_DetachedNeverSafe ==
    Scanned =>
        \A i \in 1..Len(candidates) :
            LET c == candidates[i]
            IN  /\ Detached(i) = (c.entry.branch = null)
                /\ Detached(i) => ~c.deletedOnRemote /\ c.pr = noPr /\ ~c.merged
                /\ ~(c.deletedOnRemote /\ Detached(i))
                /\ c.safeToClean = (c.merged \/ c.pr.state = "MERGED")
                /\ Detached(i) => ~c.safeToClean /\ i \notin InitialValues(candidates)

\* C16 witness: a detached worktree was classified in a repository where
\* gh is installed, next to a worktree whose remote branch is gone and one that is
\* pre-selected.
C16_Witness ==
    /\ Scanned /\ deps.gh
    /\ \E i, j \in 1..Len(candidates) :
          /\ Detached(i) /\ ~candidates[i].safeToClean
          /\ ~Detached(j) /\ candidates[j].deletedOnRemote
          /\ j \in InitialValues(candidates)

\* s with every slash replaced by a dash, position by position.
Hyphenated(s) == [i \in 1..Len(s) |-> IF s[i] = "/" THEN "-" ELSE s[i]]

PathComputed == ppc = "done"

\* C13 as stated: for every input the result is parentDir, a slash, repoName,
\* a dash and the branch name with every slash replaced by a dash.
C13_Concatenation ==
    PathComputed =>
        pPath = pParentDir \o <<"/">> \o pRepoName \o <<"-">> \o Hyphenated(pBranch)

\* C13: the result is the join of parentDir with repoName, a dash and the
\* branch name with every slash replaced by a dash: for the root directory
\* as parentDir one slash stands before the last segment, for any other
\* directory it is parentDir, a slash and the last segment; /work, app and
\* feat/login give /work/app-feat-login.
C13_JoinedPath ==
    PathComputed =>
        /\ pPath = (IF pParentDir = <<"/">> THEN <<>> ELSE pParentDir)
                       \o <<"/">> \o pRepoName \o <<"-">> \o Hyphenated(pBranch)
        /\ pParentDir = sWork /\ pRepoName = sApp /\ pBranch = sFeatLogin
              => pPath = sWork \o <<"/">> \o sApp \o <<"-">>
                           \o <<"f", "e", "a", "t", "-", "l", "o", "g", "i", "n">>

\* C13 witness: a name with two slashes under /work.
C13_Witness ==
    /\ PathComputed
    /\ pParentDir = sWork /\ pRepoName = sApp /\ pBranch = sFxF
    /\ pPath = sWork \o <<"/">> \o sApp \o <<"-", "f", "-", "x", "-", "f">>

\* Two names are equal after every slash is replaced by a dash.
SameAfterReplacing(a, b) ==
    /\ Len(a) = Len(b)
    /\ \A i \in 1..Len(a) : a[i] = b[i] \/ {a[i], b[i]} \subseteq {"/", "-"}

\* C17: for one parent directory and repository name two branch names get
\* the same path exactly when they are equal after every slash is replaced by
\* a dash; validateBranchName gives no reason exactly for a well-formed name
\* that is not the name of the local branch, so a proposed name is accepted
\* although its path is the path of a different local branch.
C17_PathCollision ==
    PathComputed =>
        /\ (pPath = pExistingPath) = SameAfterReplacing(pBranch, pExisting)
        /\ (pReason = NoReason) = (RefFormatOk(pBranch) /\ pBranch # pExisting)
        /\ RefFormatOk(pBranch) /\ pBranch # pExisting /\ pPath = pExistingPath
              => pReason = NoReason

\* C17 witness: f/f is accepted next to the local branch f-f, and both get
\* the same path.
C17_Witness ==
    /\ PathComputed
    /\ pBranch = <<"f", "/", "f">> /\ pExisting = <<"f", "-", "f">>
    /\ pReason = NoReason
    /\ pPath = pExistingPath

====
